---------------------------- MODULE Spec2Model ----------------------------
(***************************************************************************)
(* A model of password_tool.py: the fallback strength score, the wordlist  *)
(* pipeline (tokenize, case variants, leetspeak, separators, years), the   *)
(* year-range parser and the control flow of main / run_cli / launch_gui.  *)
(*                                                                         *)
(* Python strings are sequences of one-character strings, so that every    *)
(* conversion (split, strip, int(), str(), lower/upper/title, join) is     *)
(* computed character by character as the interpreter computes it.         *)
(***************************************************************************)
EXTENDS Integers, Sequences, FiniteSets, Bags, TLC

VARIABLES
    years_entries,  \* the entries the caller meant, before they are joined by ","
    years_arg,      \* parse_years: the argument string
    current_year,   \* datetime.now().year
    years_out,      \* parse_years: the returned list, or None before the call
    leet_token,     \* apply_leetspeak: token
    leet_max,       \* apply_leetspeak: max_variants
    leet_out,       \* apply_leetspeak: the returned set, or None before the call
    zxcvbn,         \* whether "from zxcvbn import zxcvbn" succeeded
    result,         \* analyze_password: the last StrengthResult, or None
    wl_args,        \* build_wordlist: its arguments, or None
    wl_locals,      \* build_wordlist: base_tokens and expanded (lines 150, 151)
    wordlist,       \* build_wordlist: the returned list (as a bag), or None
    args,           \* main: the parsed command line, or None
    pc,             \* main: where the run is
    stdout,         \* what was printed, in order
    fs,             \* the wordlist file written, or None
    gui             \* launch_gui: the window's variables, or None

vars ==
    <<years_entries, years_arg, current_year, years_out, leet_token, leet_max,
      leet_out, zxcvbn, result, wl_args, wl_locals, wordlist, args, pc, stdout,
      fs, gui>>

main_vars == <<args, pc, stdout, fs, gui>>

years_vars == <<years_entries, years_arg, current_year, years_out>>

leet_vars == <<leet_token, leet_max, leet_out>>

analyze_vars == <<zxcvbn, result>>

wordlist_vars == <<wl_args, wl_locals, wordlist>>

\* An Optional value: None, or Some(x).
None == [some |-> FALSE]

Some(x) == [some |-> TRUE, val |-> x]

-----------------------------------------------------------------------------
(* Characters and the str methods the program uses.                        *)

LowerLetters ==
    <<"a","b","c","d","e","f","g","h","i","j","k","l","m",
      "n","o","p","q","r","s","t","u","v","w","x","y","z">>

UpperLetters ==
    <<"A","B","C","D","E","F","G","H","I","J","K","L","M",
      "N","O","P","Q","R","S","T","U","V","W","X","Y","Z">>

Digits == <<"0","1","2","3","4","5","6","7","8","9">>

Range(s) == { s[i] : i \in DOMAIN s }

IndexOf(s, x) == CHOOSE i \in DOMAIN s : s[i] = x

islower(ch) == ch \in Range(LowerLetters)

isupper(ch) == ch \in Range(UpperLetters)

isalpha(ch) == islower(ch) \/ isupper(ch)

isdigit(ch) == ch \in Range(Digits)

isspace(ch) == ch = " "

lower_ch(ch) == IF isupper(ch) THEN LowerLetters[IndexOf(UpperLetters, ch)] ELSE ch

upper_ch(ch) == IF islower(ch) THEN UpperLetters[IndexOf(LowerLetters, ch)] ELSE ch

lower(s) == [i \in DOMAIN s |-> lower_ch(s[i])]

upper(s) == [i \in DOMAIN s |-> upper_ch(s[i])]

\* str.title(): a cased character is upper-cased when the character before it
\* is uncased (or it is the first), and lower-cased otherwise.
title(s) ==
    [i \in DOMAIN s |->
        IF i > 1 /\ isalpha(s[i-1]) THEN lower_ch(s[i]) ELSE upper_ch(s[i])]

RECURSIVE lstrip(_)
lstrip(s) == IF s # <<>> /\ isspace(Head(s)) THEN lstrip(Tail(s)) ELSE s

RECURSIVE rstrip(_)
rstrip(s) ==
    IF s # <<>> /\ isspace(s[Len(s)]) THEN rstrip(SubSeq(s, 1, Len(s) - 1)) ELSE s

strip(s) == rstrip(lstrip(s))

\* s.split(sep) for a one-character sep: the pieces between the separators,
\* empty pieces included.
RECURSIVE split_at(_, _, _)
split_at(s, sep, piece) ==
    IF s = <<>> THEN <<piece>>
    ELSE IF Head(s) = sep THEN <<piece>> \o split_at(Tail(s), sep, <<>>)
    ELSE split_at(Tail(s), sep, Append(piece, Head(s)))

split(s, sep) == split_at(s, sep, <<>>)

\* s.split(sep, 1): the text before the first separator and the text after it.
split_once(s, sep) ==
    LET i == CHOOSE k \in DOMAIN s : s[k] = sep /\ \A j \in 1..(k-1) : s[j] # sep
    IN  <<SubSeq(s, 1, i - 1), SubSeq(s, i + 1, Len(s))>>

\* sep.join(parts)
RECURSIVE join(_, _)
join(parts, sep) ==
    IF parts = <<>> THEN <<>>
    ELSE IF Len(parts) = 1 THEN parts[1]
    ELSE parts[1] \o sep \o join(Tail(parts), sep)

RECURSIVE digits_value(_, _)
digits_value(s, acc) ==
    IF s = <<>> THEN acc
    ELSE IF Head(s) = "_" THEN digits_value(Tail(s), acc)
    ELSE digits_value(Tail(s), 10 * acc + (IndexOf(Digits, Head(s)) - 1))

\* int(s): surrounding whitespace is dropped, one sign is allowed, then digits
\* with single underscores between them. ok = FALSE stands for ValueError.
int(s) ==
    LET t == strip(s)
        signed == t # <<>> /\ Head(t) \in {"+", "-"}
        body == IF signed THEN Tail(t) ELSE t
        wellformed ==
            /\ body # <<>>
            /\ \A i \in DOMAIN body : isdigit(body[i]) \/ body[i] = "_"
            /\ isdigit(body[1]) /\ isdigit(body[Len(body)])
            /\ \A i \in 1..(Len(body) - 1) : ~(body[i] = "_" /\ body[i+1] = "_")
        magnitude == digits_value(body, 0)
    IN  IF ~wellformed THEN [ok |-> FALSE, val |-> 0]
        ELSE [ok |-> TRUE,
              val |-> IF signed /\ Head(t) = "-" THEN 0 - magnitude ELSE magnitude]

RECURSIVE nat_str(_)
nat_str(n) == IF n < 10 THEN <<Digits[n + 1]>> ELSE Append(nat_str(n \div 10), Digits[(n % 10) + 1])

\* str(n)
str(n) == IF n < 0 THEN <<"-">> \o nat_str(0 - n) ELSE nat_str(n)

\* s[-2:]
last2(s) == IF Len(s) <= 2 THEN s ELSE SubSeq(s, Len(s) - 1, Len(s))

\* range(a, b) as a list
RECURSIVE range(_, _)
range(a, b) == IF a >= b THEN <<>> ELSE <<a>> \o range(a + 1, b)

\* sorted(S) of a set of integers
RECURSIVE sorted(_)
sorted(S) ==
    IF S = {} THEN <<>>
    ELSE LET m == CHOOSE x \in S : \A y \in S : x <= y
         IN  <<m>> \o sorted(S \ {m})

-----------------------------------------------------------------------------
(* parse_years                                                             *)

YearLow == 1900

YearHigh == 2100

\* As parse_part, but the end of a range is left out.
parse_part_exclusive(raw) ==
    LET part == strip(raw)
    IN  IF part = <<>> THEN <<>>
        ELSE IF "-" \in Range(part)
        THEN LET se == split_once(part, "-")
                 start == int(se[1])
                 end == int(se[2])
             IN  IF start.ok /\ end.ok THEN range(start.val, end.val) ELSE <<>>
        ELSE LET y == int(part)
             IN  IF y.ok THEN <<y.val>> ELSE <<>>

\* One entry of the comma-separated argument, in the loop body of parse_years:
\* the years it adds to the list (none when it is blank or raises ValueError).
parse_part(raw) ==
    LET part == strip(raw)
    IN  IF part = <<>> THEN <<>>
        ELSE IF "-" \in Range(part)
        THEN LET se == split_once(part, "-")
                 start == int(se[1])
                 end == int(se[2])
             IN  IF start.ok /\ end.ok THEN range(start.val, end.val + 1) ELSE <<>>
        ELSE LET y == int(part)
             IN  IF y.ok THEN <<y.val>> ELSE <<>>

RECURSIVE parse_parts(_)
parse_parts(parts) ==
    IF parts = <<>> THEN <<>> ELSE parse_part(Head(parts)) \o parse_parts(Tail(parts))

year_filter(years) == { y \in Range(years) : YearLow <= y /\ y <= YearHigh }

\* As parse_years, but without the default when nothing parsed.
parse_years_no_default(arg, now_year) ==
    sorted(year_filter(parse_parts(split(arg, ","))))

parse_years(arg, now_year) ==
    LET parsed == parse_parts(split(arg, ","))
        years == IF parsed = <<>> THEN <<now_year - 1, now_year, now_year + 1>> ELSE parsed
    IN  sorted(year_filter(years))

-----------------------------------------------------------------------------
(* shannon_entropy and analyze_password                                    *)

\* sum(f[x] for x in DOMAIN f)
RECURSIVE fn_sum(_)
fn_sum(f) ==
    IF DOMAIN f = {} THEN 0
    ELSE LET x == CHOOSE x \in DOMAIN f : TRUE
         IN  f[x] + fn_sum([y \in DOMAIN f \ {x} |-> f[y]])

\* password.count(ch)
count(s, ch) == Cardinality({ i \in DOMAIN s : s[i] = ch })

IsPrime(p) == p > 1 /\ \A k \in 2..(p - 1) : p % k # 0

\* The exponent of the prime p in m >= 1.
RECURSIVE prime_exponent(_, _)
prime_exponent(p, m) == IF m % p = 0 THEN 1 + prime_exponent(p, m \div p) ELSE 0

\* floor(10^6 * math.log2(k)) for k = 1..64: math.log2 at micro-bit resolution.
Log2Table ==
    <<      0, 1000000, 1584962, 2000000, 2321928, 2584962, 2807354, 3000000,
      3169925, 3321928, 3459431, 3584962, 3700439, 3807354, 3906890, 4000000,
      4087462, 4169925, 4247927, 4321928, 4392317, 4459431, 4523561, 4584962,
      4643856, 4700439, 4754887, 4807354, 4857980, 4906890, 4954196, 5000000,
      5044394, 5087462, 5129283, 5169925, 5209453, 5247927, 5285402, 5321928,
      5357552, 5392317, 5426264, 5459431, 5491853, 5523561, 5554588, 5584962,
      5614709, 5643856, 5672425, 5700439, 5727920, 5754887, 5781359, 5807354,
      5832890, 5857980, 5882643, 5906890, 5930737, 5954196, 5977279, 6000000 >>

Micro == 10^6

log2_micro(k) == Log2Table[k]

\* shannon_entropy(password) = -sum((c/n) * log2(c/n)) * n over the character
\* counts c, n = len(password).  That number is n*log2(n) - sum(c*log2(c)), the
\* log2 of n^n / prod(c^c); it is kept exact as the prime factorisation of that
\* quotient, the set of <<prime, exponent>> with a non-zero exponent.  Two
\* entropies are equal exactly when their factorisations are.  The code's
\* float rounds this number: "aaabbbcd" and "aaaaaaaaabcd", both 2^24 / 3^6
\* here, are both 14.490224995673064 there.
shannon_entropy(password) ==
    IF password = <<>> THEN {}
    ELSE LET length == Len(password)
             chars == Range(password)
             exponent(p) ==
                 length * prime_exponent(p, length)
                 - fn_sum([ch \in chars |->
                              count(password, ch) * prime_exponent(p, count(password, ch))])
         IN  { <<p, exponent(p)>> : p \in { q \in 2..length : IsPrime(q) /\ exponent(q) # 0 } }

\* The entropy in micro-bits (for display: "{entropy_bits:.2f}").
entropy_micro(entropy) ==
    fn_sum([pe \in entropy |-> pe[2] * log2_micro(pe[1])])

MaxScore == 4

BitsPerScore == 20

\* The library's answers: any score 0..4 and texts of its own.
ZxcvbnScores == 0..4

min(a, b) == IF a <= b THEN a ELSE b

\* As fallback_score, but scored on the Shannon entropy.
fallback_score_by_entropy(password) ==
    min(MaxScore, entropy_micro(shannon_entropy(password)) \div (BitsPerScore * Micro))

\* As fallback_score, but without the cap.
fallback_score_uncapped(password) ==
    LET char_space == Cardinality(Range(password))
    IN  (log2_micro(IF char_space = 0 THEN 1 ELSE char_space) * Len(password))
        \div (BitsPerScore * Micro)

\* The fallback branch of analyze_password (zxcvbn is None), lines 67-69.
fallback_score(password) ==
    LET char_space == Cardinality(Range(password))
        naive_bits == log2_micro(IF char_space = 0 THEN 1 ELSE char_space) * Len(password)
    IN  min(MaxScore, naive_bits \div (BitsPerScore * Micro))

\* analyze_password(password): the StrengthResult.  lib_score is what zxcvbn
\* answers when it is installed.
analyze_password(password, installed, lib_score) ==
    [ password |-> password,
      score |-> IF installed THEN lib_score ELSE fallback_score(password),
      crack_time_display |->
          IF installed THEN "offline_slow_hashing_1e4_per_second"
          ELSE "zxcvbn not installed; using heuristic",
      feedback |-> IF installed THEN "zxcvbn feedback" ELSE "Install zxcvbn for richer analysis",
      entropy_bits |-> shannon_entropy(password) ]

-----------------------------------------------------------------------------
(* The wordlist pipeline                                                   *)

LEET_MAP ==
    [ a |-> <<"4", "@">>, b |-> <<"8">>, e |-> <<"3">>, g |-> <<"6", "9">>,
      i |-> <<"1", "!">>, l |-> <<"1", "|">>, o |-> <<"0">>, s |-> <<"5", "$">>,
      t |-> <<"7">>, z |-> <<"2">> ]

\* s.replace(old, new) for one-character old and new
replace(s, old, new) == [i \in DOMAIN s |-> IF s[i] = old THEN new ELSE s[i]]

\* s.split(): the maximal runs of non-whitespace characters
RECURSIVE split_ws(_, _)
split_ws(s, piece) ==
    IF s = <<>> THEN (IF piece = <<>> THEN <<>> ELSE <<piece>>)
    ELSE IF isspace(Head(s))
         THEN (IF piece = <<>> THEN <<>> ELSE <<piece>>) \o split_ws(Tail(s), <<>>)
         ELSE split_ws(Tail(s), Append(piece, Head(s)))

\* list(dict.fromkeys(xs)) of a list: first occurrences, in order
RECURSIVE fromkeys(_, _)
fromkeys(xs, seen) ==
    IF xs = <<>> THEN <<>>
    ELSE IF Head(xs) \in seen THEN fromkeys(Tail(xs), seen)
    ELSE <<Head(xs)>> \o fromkeys(Tail(xs), seen \cup {Head(xs)})

\* ensure_nltk(): NLTK is a third-party package that is not part of the
\* repository; the import falls to its except branch and no lemmatizer exists.
ensure_nltk == None

item_tokens(item) ==
    LET words == split_ws(replace(replace(item, "_", " "), "-", " "), <<>>)
    IN  SelectSeq([i \in DOMAIN words |-> strip(words[i])], LAMBDA t : t # <<>>)

RECURSIVE all_tokens(_)
all_tokens(raw_inputs) ==
    IF raw_inputs = <<>> THEN <<>>
    ELSE item_tokens(Head(raw_inputs)) \o all_tokens(Tail(raw_inputs))

tokenize_inputs(raw_inputs) == fromkeys(all_tokens(raw_inputs), {})

case_variants(token) ==
    {lower(token), upper(token), title(token)}
    \cup (IF token # <<>> /\ isalpha(token[1])
          THEN {<<upper_ch(token[1])>> \o Tail(token)} ELSE {})

\* As leet_options, but the map is looked up with the upper-cased character.
leet_options_upper_key(ch) ==
    <<ch>> \o (IF upper_ch(ch) \in DOMAIN LEET_MAP THEN LEET_MAP[upper_ch(ch)] ELSE <<>>)

leet_options(ch) ==
    <<ch>> \o (IF lower_ch(ch) \in DOMAIN LEET_MAP THEN LEET_MAP[lower_ch(ch)] ELSE <<>>)

RECURSIVE product_size(_)
product_size(chars) ==
    IF chars = <<>> THEN 1 ELSE Len(Head(chars)) * product_size(Tail(chars))

\* The k-th tuple (from 0) of itertools.product(*chars): the last position
\* varies fastest.
RECURSIVE product_at(_, _)
product_at(chars, k) ==
    IF chars = <<>> THEN <<>>
    ELSE LET rest == product_size(Tail(chars))
         IN  <<Head(chars)[(k \div rest) + 1]>> \o product_at(Tail(chars), k % rest)

\* As leet_step, but the loop breaks one variant late.
leet_step_late_break(chars, k, variants, max_variants) ==
    LET added == variants \cup {product_at(chars, k)}
    IN  [variants |-> added, broke |-> Cardinality(added) > max_variants]

\* One iteration of the loop of apply_leetspeak, on the k-th combo: the set
\* after the add, and whether the loop breaks.
leet_step(chars, k, variants, max_variants) ==
    LET added == variants \cup {product_at(chars, k)}
    IN  [variants |-> added, broke |-> Cardinality(added) >= max_variants]

\* Iterations lo .. hi-1 of the loop, from the state st; none after a break.
\* (Halved rather than one by one, to keep the evaluation shallow.)
RECURSIVE leet_loop(_, _, _, _, _)
leet_loop(chars, lo, hi, st, max_variants) ==
    IF st.broke \/ lo >= hi THEN st
    ELSE IF hi = lo + 1 THEN leet_step(chars, lo, st.variants, max_variants)
    ELSE LET mid == (lo + hi) \div 2
             first == leet_loop(chars, lo, mid, st, max_variants)
         IN  leet_loop(chars, mid, hi, first, max_variants)

apply_leetspeak(token, max_variants) ==
    LET chars == [i \in DOMAIN token |-> leet_options(token[i])]
    IN  leet_loop(chars, 0, product_size(chars), [variants |-> {}, broke |-> FALSE],
                  max_variants).variants

DefaultMaxVariants == 128

\* As append_years, but only the two-digit year is appended.
append_years_short_only(tokens, years) ==
    tokens \cup { token \o last2(str(years[i])) : token \in tokens, i \in DOMAIN years }

append_years(tokens, years) ==
    tokens
    \cup { token \o str(years[i]) : token \in tokens, i \in DOMAIN years }
    \cup { token \o last2(str(years[i])) : token \in tokens, i \in DOMAIN years }

add_separators(tokens, separators) ==
    { ab[1] \o separators[i] \o ab[2] :
        ab \in { p \in tokens \X tokens : p[1] # p[2] }, i \in DOMAIN separators }

\* As expand_tokens, but include_leet is not consulted.
RECURSIVE expand_tokens_always_leet(_, _)
expand_tokens_always_leet(base_tokens, include_leet) ==
    IF base_tokens = <<>> THEN {}
    ELSE case_variants(Head(base_tokens))
         \cup apply_leetspeak(Head(base_tokens), DefaultMaxVariants)
         \cup expand_tokens_always_leet(Tail(base_tokens), include_leet)

RECURSIVE expand_tokens(_, _)
expand_tokens(base_tokens, include_leet) ==
    IF base_tokens = <<>> THEN {}
    ELSE case_variants(Head(base_tokens))
         \cup (IF include_leet THEN apply_leetspeak(Head(base_tokens), DefaultMaxVariants) ELSE {})
         \cup expand_tokens(Tail(base_tokens), include_leet)

\* wordlist[:stop] of a list of n entries: how many entries the slice keeps.
slice_len(n, stop) ==
    IF stop >= 0 THEN min(n, stop) ELSE (IF n + stop > 0 THEN n + stop ELSE 0)

\* The subsets of S with k elements, 0 <= k <= Cardinality(S).
RECURSIVE k_subsets(_, _)
k_subsets(S, k) ==
    IF k = 0 THEN {{}}
    ELSE IF 2 * k > Cardinality(S)
    THEN { S \ T : T \in k_subsets(S, Cardinality(S) - k) }
    ELSE UNION { { T \cup {x} : x \in S \ T } : T \in k_subsets(S, k - 1) }

\* list(dict.fromkeys(S)) of a set: every element once.  A list is kept up to
\* the order of its entries, as the bag of them.
to_list(S) == [x \in S |-> 1]

\* len(xs) of a list kept as a bag
len(xs) == BagCardinality(xs)

\* build_wordlist up to line 152: its locals before the truncation.
build_locals(user_inputs, years, separators, include_leet) ==
    LET base_tokens == tokenize_inputs(user_inputs)
        variants == expand_tokens(base_tokens, include_leet)
        expanded == variants \cup add_separators(variants, separators)
    IN  [ base_tokens |-> base_tokens,
          expanded |-> expanded,
          with_years |-> append_years(expanded, years) ]

\* build_wordlist, lines 152-155: the lists it can return for the set it has
\* built.  The iteration order of the set is the interpreter's (string hashing
\* is seeded per process), so the truncation may keep any entries, as many as
\* the slice keeps.
truncate(full, max_size) ==
    LET n == Cardinality(full)
    IN  IF n > max_size
        THEN { to_list(kept) : kept \in k_subsets(full, slice_len(n, max_size)) }
        ELSE { to_list(full) }

build_wordlist(user_inputs, years, separators, include_leet, max_size) ==
    truncate(build_locals(user_inputs, years, separators, include_leet).with_years, max_size)

DefaultMaxSize == 50000

-----------------------------------------------------------------------------
(* The inputs the calls are made with                                      *)

MaxEntries == 3

\* Entries of a --years argument.  Beside its text each carries what it means:
\* the years it names when it is a single year or a range start-end with
\* start <= end, and nothing otherwise.
YearEntries ==
    { [text |-> <<"2","0","2","4">>, names |-> {2024}, valid |-> TRUE],
      [text |-> <<"1","9","9","0","-","1","9","9","2">>, names |-> 1990..1992, valid |-> TRUE],
      [text |-> <<" ","2","0","2","3"," ">>, names |-> {2023}, valid |-> TRUE],
      [text |-> <<"2","0","9","9","-","2","1","0","2">>, names |-> 2099..2102, valid |-> TRUE],
      [text |-> <<"1","8","9","9">>, names |-> {1899}, valid |-> TRUE],
      [text |-> <<"a","b","c">>, names |-> {}, valid |-> FALSE],
      [text |-> <<>>, names |-> {}, valid |-> FALSE],
      [text |-> <<"1","9","9","2","-","1","9","9","0">>, names |-> {}, valid |-> FALSE],
      [text |-> <<"1","9","9","0","-","1","9","x","2">>, names |-> {}, valid |-> FALSE] }

\* The years the clock may show: an ordinary one and the two ends of the
\* range parse_years keeps.
CurrentYears == {YearLow, 2026, YearHigh}

SeqsUpTo(S, n) == UNION { [1..k -> S] : k \in 0..n }

MaxTokenLen == 5

LeetAlphabet == {"a", "E", "x"}

LeetMaxes == {0, 1, 2, 3, DefaultMaxVariants}

MaxRun == 9

MaxSecondRun == 3

MaxSingles == 16

RECURSIVE repeat(_, _)
repeat(ch, n) == IF n = 0 THEN <<>> ELSE <<ch>> \o repeat(ch, n - 1)

\* The password of i times "a", then j times "b", then s further letters once
\* each: "aaaaaaaaabcd" is spell(9, 1, 2).
spell(i, j, s) ==
    repeat("a", i) \o repeat("b", j) \o [k \in 1..s |-> LowerLetters[2 + k]]

\* Passwords of one run of up to MaxRun characters, a second run no longer
\* than the first of up to MaxSecondRun characters, and up to MaxSingles
\* characters that occur once.
Passwords ==
    { spell(t[1], t[2], t[3]) :
        t \in { u \in (0..MaxRun) \X (0..MaxSecondRun) \X (0..MaxSingles) : u[2] <= u[1] } }

MaxLibraryLen == 4

LibraryPasswords == { p \in Passwords : Len(p) <= MaxLibraryLen }

MaxInputs == 1

InputStrings == { <<"R","e","x">>, <<"a","_","b">>, <<"i"," ","i","-","7">> }

WordlistYears == { <<>>, <<2024>>, <<1999, 2024>> }

WordlistSeparators == { <<>>, << <<>> >>, << <<>>, <<"_">> >> }

WordlistSizes == {-1, 0, 1, DefaultMaxSize}

-----------------------------------------------------------------------------
(* parse_years, called once on an argument                                 *)

YearsIdle ==
    /\ years_entries = <<>>
    /\ years_arg = <<>>
    /\ current_year \in {2026}
    /\ years_out = None

LeetIdle == leet_token = <<>> /\ leet_max = DefaultMaxVariants /\ leet_out = None

AnalyzeIdle == zxcvbn = FALSE /\ result = None

WordlistIdle == wl_args = None /\ wl_locals = None /\ wordlist = None

MainIdle == args = None /\ pc = "call" /\ stdout = <<>> /\ fs = None /\ gui = None

texts(entries) == [i \in DOMAIN entries |-> entries[i].text]

InitYears ==
    /\ years_entries \in SeqsUpTo(YearEntries, MaxEntries)
    /\ years_arg = join(texts(years_entries), <<",">>)
    /\ current_year \in CurrentYears
    /\ years_out = None
    /\ LeetIdle /\ AnalyzeIdle /\ WordlistIdle /\ MainIdle

ParseYears ==
    /\ years_out = None
    /\ years_out' = Some(parse_years(years_arg, current_year))
    /\ UNCHANGED <<years_entries, years_arg, current_year>>
    /\ UNCHANGED <<leet_vars, analyze_vars, wordlist_vars, main_vars>>

SpecYears == InitYears /\ [][ParseYears]_vars

-----------------------------------------------------------------------------
(* apply_leetspeak, called once on a token                                 *)

InitLeet ==
    /\ leet_token \in SeqsUpTo(LeetAlphabet, MaxTokenLen)
    /\ leet_max \in LeetMaxes
    /\ leet_out = None
    /\ YearsIdle /\ AnalyzeIdle /\ WordlistIdle /\ MainIdle

ApplyLeetspeak ==
    /\ leet_out = None
    /\ leet_out' = Some(apply_leetspeak(leet_token, leet_max))
    /\ UNCHANGED <<leet_token, leet_max>>
    /\ UNCHANGED <<years_vars, analyze_vars, wordlist_vars, main_vars>>

SpecLeet == InitLeet /\ [][ApplyLeetspeak]_vars

-----------------------------------------------------------------------------
(* analyze_password, called again and again                                *)

InitAnalyze ==
    /\ zxcvbn \in BOOLEAN
    /\ result = None
    /\ YearsIdle /\ LeetIdle /\ WordlistIdle /\ MainIdle

\* Every StrengthResult analyze_password can return on a password of the pool:
\* with zxcvbn installed the library may answer any of its scores, and the
\* passwords it is asked about are the short ones.
Analyses ==
    [ installed \in BOOLEAN |->
        { analyze_password(password, installed, lib_score) :
            password \in (IF installed THEN LibraryPasswords ELSE Passwords),
            lib_score \in (IF installed THEN ZxcvbnScores ELSE {0}) } ]

AnalyzePassword ==
    /\ \E r \in Analyses[zxcvbn] : result' = Some(r)
    /\ UNCHANGED zxcvbn
    /\ UNCHANGED <<years_vars, leet_vars, wordlist_vars, main_vars>>

SpecAnalyze == InitAnalyze /\ [][AnalyzePassword]_vars

-----------------------------------------------------------------------------
(* build_wordlist, called once                                             *)

InitWordlist ==
    /\ \E a \in [ user_inputs : SeqsUpTo(InputStrings, MaxInputs),
                   years : WordlistYears,
                   separators : WordlistSeparators,
                   include_leet : BOOLEAN,
                   max_size : WordlistSizes ] : wl_args = Some(a)
    /\ wl_locals = None
    /\ wordlist = None
    /\ YearsIdle /\ LeetIdle /\ AnalyzeIdle /\ MainIdle

BuildWordlist ==
    /\ wordlist = None
    /\ wl_args.some
    /\ LET a == wl_args.val
           locals == build_locals(a.user_inputs, a.years, a.separators, a.include_leet)
       IN  /\ wl_locals' = Some(locals)
           /\ \E out \in truncate(locals.with_years, a.max_size) : wordlist' = Some(out)
    /\ UNCHANGED wl_args
    /\ UNCHANGED <<years_vars, leet_vars, analyze_vars, main_vars>>

SpecWordlist == InitWordlist /\ [][BuildWordlist]_vars

-----------------------------------------------------------------------------
(* main, run_cli and launch_gui                                            *)

\* bool(x) of an Optional string: None and "" are false.
truthy(opt) == opt.some /\ opt.val # <<>>

DefaultSeparators == << <<>>, <<"_">>, <<"-">>, <<".">> >>

GuiSeparators == << <<>>, <<"_">>, <<"-">>, <<".">>, <<"!">> >>

\* The command lines main is run with.
CommandLines ==
    [ gui : BOOLEAN,
      password : {None, Some(<<>>), Some(<<"a","b">>)},
      inputs : { << <<"x">> >> },
      years : { <<>>, <<"2","0","2","4">> },
      wordlist : {None, Some(<<>>), Some(<<"w",".","t","x","t">>)},
      separators : {DefaultSeparators},
      no_leet : BOOLEAN,
      max_size : {DefaultMaxSize, 1} ]

\* What the user may type into the window.
GuiPasswords == { <<"a","b">> }

GuiInputs == { <<" ","x",","," ">> }

\* years_entry as it is prefilled (line 241)
GuiYears(now_year) == { str(now_year - 1) \o <<"-">> \o str(now_year + 1) }

GuiSizes == {DefaultMaxSize}

GuiPaths == { <<>>, <<"w",".","t","x","t">> }

line(kind, n) == [kind |-> kind, n |-> n]

printed(kind) == \E i \in DOMAIN stdout : stdout[i].kind = kind

\* As main_branch, but the usage hint is chosen when either option is missing.
main_branch_either_missing(a) ==
    IF a.gui THEN "launch_gui"
    ELSE IF ~truthy(a.password) \/ ~truthy(a.wordlist) THEN "usage"
    ELSE "run_cli"

\* main, lines 288-294: what it does with the parsed arguments.
main_branch(a) ==
    IF a.gui THEN "launch_gui"
    ELSE IF ~truthy(a.password) /\ ~truthy(a.wordlist) THEN "usage"
    ELSE "run_cli"

InitMain ==
    /\ args \in { Some(a) : a \in CommandLines }
    /\ pc = "main"
    /\ stdout = <<>>
    /\ fs = None
    /\ gui = None
    /\ zxcvbn \in BOOLEAN
    /\ result = None
    /\ YearsIdle /\ LeetIdle /\ WordlistIdle

MainGui ==
    /\ pc = "main"
    /\ main_branch(args.val) = "launch_gui"
    /\ pc' = "launch_gui"
    /\ UNCHANGED <<args, stdout, fs, gui>>
    /\ UNCHANGED <<years_vars, leet_vars, analyze_vars, wordlist_vars>>

MainUsage ==
    /\ pc = "main"
    /\ main_branch(args.val) = "usage"
    /\ stdout' = Append(stdout, line("usage", 0))
    /\ pc' = "done"
    /\ UNCHANGED <<args, fs, gui>>
    /\ UNCHANGED <<years_vars, leet_vars, analyze_vars, wordlist_vars>>

MainRunCli ==
    /\ pc = "main"
    /\ main_branch(args.val) = "run_cli"
    /\ pc' = "run_cli"
    /\ UNCHANGED <<args, stdout, fs, gui>>
    /\ UNCHANGED <<years_vars, leet_vars, analyze_vars, wordlist_vars>>

\* run_cli, lines 182-190
RunCliPassword ==
    /\ pc = "run_cli"
    /\ IF truthy(args.val.password)
       THEN \E lib_score \in (IF zxcvbn THEN ZxcvbnScores ELSE {0}) :
               LET r == analyze_password(args.val.password.val, zxcvbn, lib_score)
               IN  /\ result' = Some(r)
                   /\ stdout' = Append(stdout, line("report", r.score))
       ELSE UNCHANGED <<result, stdout>>
    /\ pc' = "run_cli_wordlist"
    /\ UNCHANGED <<args, fs, gui, zxcvbn>>
    /\ UNCHANGED <<years_vars, leet_vars, wordlist_vars>>

\* parse_years and build_wordlist as a handler calls them, and the file it
\* writes when it has a path: one entry per line.
Generate(years_text, a, path, written) ==
    LET years == parse_years(years_text, current_year)
        locals == build_locals(a.user_inputs, years, a.separators, a.include_leet)
    IN  /\ years_arg' = years_text
        /\ years_out' = Some(years)
        /\ wl_args' = Some([a EXCEPT !.years = years])
        /\ wl_locals' = Some(locals)
        /\ \E out \in truncate(locals.with_years, a.max_size) :
              /\ wordlist' = Some(out)
              /\ fs' = IF written THEN Some([path |-> path, lines |-> out]) ELSE fs
              /\ stdout' = IF written /\ pc = "run_cli_wordlist"
                           THEN Append(stdout, line("generated", len(out))) ELSE stdout
              /\ gui' = IF written /\ pc = "mainloop"
                        THEN Some([gui.val EXCEPT !.status_var = line("Saved", len(out))])
                        ELSE gui
        /\ UNCHANGED <<years_entries, current_year>>

\* run_cli, lines 191-198
RunCliWordlist ==
    /\ pc = "run_cli_wordlist"
    /\ IF truthy(args.val.wordlist)
       THEN Generate(args.val.years,
                     [ user_inputs |-> args.val.inputs, years |-> <<>>,
                       separators |-> args.val.separators,
                       include_leet |-> ~args.val.no_leet,
                       max_size |-> args.val.max_size ],
                     args.val.wordlist.val, TRUE)
       ELSE UNCHANGED <<years_vars, wordlist_vars, fs, stdout, gui>>
    /\ pc' = "done"
    /\ UNCHANGED <<args, leet_vars, analyze_vars>>

\* launch_gui, lines 202-207: tkinter cannot be imported
LaunchGuiNoTk ==
    /\ pc = "launch_gui"
    /\ stdout' = Append(stdout, line("no_tk", 0))
    /\ pc' = "done"
    /\ UNCHANGED <<args, fs, gui>>
    /\ UNCHANGED <<years_vars, leet_vars, analyze_vars, wordlist_vars>>

\* launch_gui, lines 209-270: the window is built and the event loop runs
LaunchGuiOpen ==
    /\ pc = "launch_gui"
    /\ gui' = Some([feedback_var |-> None, status_var |-> line("Ready", 0)])
    /\ pc' = "mainloop"
    /\ UNCHANGED <<args, stdout, fs>>
    /\ UNCHANGED <<years_vars, leet_vars, analyze_vars, wordlist_vars>>

\* on_analyze, lines 224-227
OnAnalyze ==
    /\ pc = "mainloop"
    /\ \E pwd \in GuiPasswords, lib_score \in (IF zxcvbn THEN ZxcvbnScores ELSE {0}) :
          LET r == analyze_password(pwd, zxcvbn, lib_score)
          IN  /\ result' = Some(r)
              /\ gui' = Some([gui.val EXCEPT !.feedback_var = Some(r.score)])
    /\ UNCHANGED <<args, pc, stdout, fs, zxcvbn>>
    /\ UNCHANGED <<years_vars, leet_vars, wordlist_vars>>

\* [i.strip() for i in text.split(",") if i.strip()]
gui_inputs(text) ==
    LET parts == split(text, ",")
    IN  SelectSeq([i \in DOMAIN parts |-> strip(parts[i])], LAMBDA t : t # <<>>)

\* on_generate, lines 255-266: nothing is written when the save dialog is
\* cancelled (the path is empty)
OnGenerate ==
    /\ pc = "mainloop"
    /\ \E text \in GuiInputs, years_text \in GuiYears(current_year), leet \in BOOLEAN,
          size \in GuiSizes, path \in GuiPaths :
          Generate(years_text,
                   [ user_inputs |-> gui_inputs(text), years |-> <<>>,
                     separators |-> GuiSeparators, include_leet |-> leet,
                     max_size |-> size ],
                   path, path # <<>>)
    /\ UNCHANGED <<args, pc, leet_vars, analyze_vars>>

\* the window is closed: root.mainloop() returns
OnClose ==
    /\ pc = "mainloop"
    /\ pc' = "done"
    /\ UNCHANGED <<args, stdout, fs, gui>>
    /\ UNCHANGED <<years_vars, leet_vars, analyze_vars, wordlist_vars>>

NextMain ==
    \/ MainGui \/ MainUsage \/ MainRunCli
    \/ RunCliPassword \/ RunCliWordlist
    \/ LaunchGuiNoTk \/ LaunchGuiOpen \/ OnAnalyze \/ OnGenerate \/ OnClose

SpecMain == InitMain /\ [][NextMain]_vars

-----------------------------------------------------------------------------
(* Properties of build_wordlist                                            *)

Returned == wordlist.some /\ wl_args.some

\* C1: for every inputs, years, separators, leetspeak setting and integer
\* max_size, the returned list has at most max_size entries and no two equal
\* entries.
WordlistWithinMaxSize ==
    Returned =>
        /\ len(wordlist.val) <= wl_args.val.max_size
        /\ \A word \in DOMAIN wordlist.val : wordlist.val[word] = 1

RexCall ==
    /\ Returned
    /\ wl_args.val = [ user_inputs |-> << <<"R","e","x">> >>, years |-> <<2024>>,
                       separators |-> << <<>> >>, include_leet |-> TRUE,
                       max_size |-> DefaultMaxSize ]

Year2024 == <<"2","0","2","4">>

\* C2 as stated: build_wordlist(["Rex"], [2024], [""], True) contains
\* "rex2024", "REX2024", "Rex2024" and the leetspeak variant "r3x2024".
RexExampleLowerLeet ==
    RexCall =>
        { <<"r","e","x">> \o Year2024, <<"R","E","X">> \o Year2024,
          <<"R","e","x">> \o Year2024, <<"r","3","x">> \o Year2024 }
        \subseteq DOMAIN wordlist.val

\* C2, amended: build_wordlist(["Rex"], [2024], [""], True) contains "rex2024",
\* "REX2024", "Rex2024" and the leetspeak variant "R3x2024": the substitutions
\* are made in the token as it was typed, not in its case variants.
RexExample ==
    RexCall =>
        { <<"r","e","x">> \o Year2024, <<"R","E","X">> \o Year2024,
          <<"R","e","x">> \o Year2024, <<"R","3","x">> \o Year2024 }
        \subseteq DOMAIN wordlist.val

RexExampleReached == RexCall /\ (<<"R","3","x">> \o Year2024) \in DOMAIN wordlist.val

\* C3 as stated: for every word w of the case/leetspeak/separator stages and
\* every year y, the untruncated wordlist contains both w followed by y and y
\* followed by w.
YearSuffixedAndPrefixed ==
    wl_locals.some =>
        \A i \in DOMAIN wl_args.val.years :
            LET y == str(wl_args.val.years[i])
                untruncated == wl_locals.val.with_years
            IN  \A w \in wl_locals.val.expanded :
                    (w \o y) \in untruncated /\ (y \o w) \in untruncated

\* C3, amended: for every word w of the case/leetspeak/separator stages and
\* every year y, the untruncated wordlist contains w followed by y (and w
\* followed by the last two characters of y); years are appended only.
YearSuffixed ==
    wl_locals.some =>
        \A i \in DOMAIN wl_args.val.years :
            LET y == str(wl_args.val.years[i])
                yy == last2(y)
                untruncated == wl_locals.val.with_years
            IN  \A w \in wl_locals.val.expanded :
                    (w \o y) \in untruncated /\ (w \o yy) \in untruncated

YearSuffixedReached ==
    /\ wl_locals.some
    /\ wl_args.val.years = <<1999, 2024>>
    /\ <<"a","_","B">> \in wl_locals.val.expanded
    /\ <<"a","_","B","1","9","9","9">> \in wl_locals.val.with_years

TokenBreaks == {" ", "_", "-"}

\* The tokens of an input, read off the text: the maximal runs of characters
\* other than blanks, "_" and "-".
TokensOf(item) ==
    { SubSeq(item, i, j) : <<i, j>> \in
        { ij \in (DOMAIN item) \X (DOMAIN item) :
            /\ ij[1] <= ij[2]
            /\ \A k \in ij[1]..ij[2] : item[k] \notin TokenBreaks
            /\ (ij[1] = 1 \/ item[ij[1] - 1] \in TokenBreaks)
            /\ (ij[2] = Len(item) \/ item[ij[2] + 1] \in TokenBreaks) } }

CaseVariantsOf(t) ==
    {lower(t), upper(t), title(t)}
    \cup (IF isalpha(t[1]) THEN {<<upper_ch(t[1])>> \o Tail(t)} ELSE {})

\* What the wordlist may hold when leetspeak is off: case variants of input
\* tokens, two of them joined by a separator, and either followed by a year in
\* full or by its last two digits.
PlainWords(a) ==
    LET single == UNION { CaseVariantsOf(t) :
                          t \in UNION { TokensOf(a.user_inputs[i]) : i \in DOMAIN a.user_inputs } }
        joined == { x \o a.separators[i] \o y : x \in single, y \in single,
                                                i \in DOMAIN a.separators }
        plain == single \cup joined
        suffixes == UNION { {str(a.years[i]), last2(str(a.years[i]))} : i \in DOMAIN a.years }
    IN  plain \cup { x \o sfx : x \in plain, sfx \in suffixes }

\* C6: with include_leet = False (and no lemmatizer), every returned word is a
\* case variant of an input token, two case variants joined by a separator, or
\* one of those followed by a year in full or as its last two digits.
PlainWordsOnly ==
    (Returned /\ ~wl_args.val.include_leet) =>
        DOMAIN wordlist.val \subseteq PlainWords(wl_args.val)

PlainWordsReached ==
    /\ Returned
    /\ ~wl_args.val.include_leet
    /\ <<"a","_","B","2","4">> \in DOMAIN wordlist.val
    /\ <<"A">> \in DOMAIN wordlist.val

-----------------------------------------------------------------------------
(* Properties of parse_years                                               *)

IsAscending(xs) == \A i \in 1..(Len(xs) - 1) : xs[i] < xs[i + 1]

SomeEntryValid == \E i \in DOMAIN years_entries : years_entries[i].valid

\* The years the valid entries name, within the range parse_years keeps.
NamedYears ==
    UNION { years_entries[i].names : i \in { j \in DOMAIN years_entries : years_entries[j].valid } }
    \cap (YearLow..YearHigh)

\* C4: when at least one entry is a valid year or a valid range start-end,
\* parse_years returns exactly the years the valid entries name that lie in
\* [1900,2100], each once and ascending; malformed entries change nothing.
ParseYearsOfValidEntries ==
    (years_out.some /\ SomeEntryValid) =>
        /\ IsAscending(years_out.val)
        /\ Range(years_out.val) = NamedYears

ParseYearsOfValidEntriesReached ==
    /\ years_out.some
    /\ years_arg = <<"1","9","9","0","-","1","9","9","2",",","a","b","c",",","2","0","2","4">>
    /\ years_out.val = <<1990, 1991, 1992, 2024>>

\* C5 as stated: when no entry parses to a year, parse_years returns exactly
\* the three years Y-1, Y, Y+1 of the current year Y.
DefaultWindowOfThree ==
    (years_out.some /\ ~SomeEntryValid) =>
        years_out.val = <<current_year - 1, current_year, current_year + 1>>

\* C5, amended: when no entry parses to a year, parse_years returns those of
\* Y-1, Y, Y+1 that lie in [1900,2100], ascending (all three whenever
\* 1901 <= Y <= 2099): the default window passes the same filter as parsed
\* years do.
DefaultWindowFiltered ==
    (years_out.some /\ ~SomeEntryValid) =>
        /\ IsAscending(years_out.val)
        /\ Range(years_out.val) =
              {current_year - 1, current_year, current_year + 1} \cap (YearLow..YearHigh)

DefaultWindowReached ==
    /\ years_out.some
    /\ years_arg = <<"a","b","c",",",",","1","9","9","2","-","1","9","9","0">>
    /\ current_year = 2026
    /\ years_out.val = <<2025, 2026, 2027>>

-----------------------------------------------------------------------------
(* Properties of apply_leetspeak                                           *)

\* C9: for every token and max_variants >= 1, apply_leetspeak returns between
\* 1 and max_variants strings, the unmodified token among them; with the 128
\* build_wordlist passes, at most 128 per token.
LeetFanOutBounded ==
    (leet_out.some /\ leet_max >= 1) =>
        /\ 1 <= Cardinality(leet_out.val)
        /\ Cardinality(leet_out.val) <= leet_max
        /\ leet_token \in leet_out.val

LeetFanOutReached ==
    /\ leet_out.some
    /\ leet_token = <<"a","a","a","E","a">>
    /\ leet_max = DefaultMaxVariants
    /\ Cardinality(leet_out.val) = DefaultMaxVariants

-----------------------------------------------------------------------------
(* Properties of analyze_password                                          *)

Fallback == ~zxcvbn /\ result.some

distinct(password) == Cardinality(Range(password))

\* C7: without zxcvbn, analyze_password returns a result for every password,
\* its score is an integer in 0..4, and the score never decreases when the
\* length grows with the number of distinct characters unchanged, nor when
\* the number of distinct characters grows with the length unchanged.
FallbackScoreBoundedMonotone ==
    /\ [](Fallback => result.val.score \in 0..4)
    /\ [][ (Fallback /\ result'.some) =>
             LET p == result.val.password
                 q == result'.val.password
             IN  ( \/ (Len(p) <= Len(q) /\ distinct(p) = distinct(q))
                   \/ (Len(p) = Len(q) /\ distinct(p) <= distinct(q)) )
                 => result.val.score <= result'.val.score ]_vars

FallbackScoreCapReached ==
    /\ Fallback
    /\ result.val.password = spell(MaxRun, MaxSecondRun, MaxSingles)
    /\ result.val.score = MaxScore

\* C8 as stated: without zxcvbn the score is derived from the Shannon entropy
\* reported as entropy_bits, so two passwords with the same entropy_bits
\* always receive the same score.
SameEntropySameScore ==
    [][ (Fallback /\ result'.some /\ result.val.entropy_bits = result'.val.entropy_bits)
        => result.val.score = result'.val.score ]_vars

\* C8, amended: without zxcvbn the score is derived from naive_bits =
\* log2(number of distinct characters) * length, not from the Shannon entropy
\* reported as entropy_bits: two passwords with the same length and the same
\* number of distinct characters always receive the same score.
SameShapeSameScore ==
    [][ (Fallback /\ result'.some
         /\ Len(result.val.password) = Len(result'.val.password)
         /\ distinct(result.val.password) = distinct(result'.val.password))
        => result.val.score = result'.val.score ]_vars

\* "aaaaaaaaabcd": the entropy of "aaabbbcd" (2^24 / 3^6), which scores 0.
SameShapeReached ==
    /\ Fallback
    /\ result.val.password = spell(9, 1, 2)
    /\ result.val.entropy_bits = shannon_entropy(spell(3, 3, 2))
    /\ result.val.score = 1
    /\ fallback_score(spell(3, 3, 2)) = 0

-----------------------------------------------------------------------------
(* Properties of main                                                      *)

Done == pc = "done"

ReportAndUsage ==
    /\ Done => (printed("report") <=> (~args.val.gui /\ truthy(args.val.password)))
    /\ (fs.some /\ ~args.val.gui /\ truthy(args.val.password)) => printed("report")
    /\ (Done /\ ~args.val.gui /\ ~truthy(args.val.password) /\ ~truthy(args.val.wordlist))
         => (stdout = <<line("usage", 0)>> /\ ~result.some /\ ~wordlist.some /\ ~fs.some)

\* C10 as stated: in every run of main a wordlist file is written iff --gui is
\* absent and --wordlist is a non-empty path; the report is printed iff --gui
\* is absent and --password is non-empty; the report comes before the file;
\* without --gui, --password and --wordlist only the usage hint is printed.
MainWritesOnlyFromCli ==
    /\ Done => (fs.some <=> (~args.val.gui /\ truthy(args.val.wordlist)))
    /\ ReportAndUsage

\* C10, amended: run_cli writes a wordlist file (and prints its "Generated
\* wordlist" line) iff --gui is absent and --wordlist is a non-empty path;
\* with --gui run_cli is not invoked, and a file is written only when the user
\* saves one with the window's Generate & Save.  The rest as stated.
MainEffects ==
    /\ Done => (printed("generated") <=> (~args.val.gui /\ truthy(args.val.wordlist)))
    /\ (Done /\ ~args.val.gui) => (fs.some <=> truthy(args.val.wordlist))
    /\ (fs.some /\ ~args.val.gui) => (fs.val.path = args.val.wordlist.val /\ printed("generated"))
    /\ (fs.some /\ args.val.gui) => (gui.some /\ gui.val.status_var.kind = "Saved")
    /\ ReportAndUsage

MainEffectsReached ==
    /\ Done
    /\ ~args.val.gui
    /\ stdout = <<line("report", 0), line("generated", 1)>>
    /\ fs.some

=============================================================================
